---- MODULE Spec2Model ----
(***************************************************************************)
(* Model of the Streamlit chat front ends of langGraph-chatbot:            *)
(*   streamlit-frontend-threading.py  (variant "basic")                    *)
(*   streamlit_frontend_tool.py       (variant "tool")                     *)
(*   streamlit_rag_frontend.py        (variant "rag")                      *)
(* Every user interaction runs the script top to bottom; one action of the *)
(* model is one script run (or, inside a turn, one step of the streaming   *)
(* generator that st.write_stream pulls).  Text is a sequence of           *)
(* one-character strings.                                                  *)
(***************************************************************************)
EXTENDS Integers, Sequences, FiniteSets, Bags, TLC

VARIABLES
    variant,          \* which of the three scripts this session runs
    message_history,  \* st.session_state["message_history"]
    thread_id,        \* st.session_state["thread_id"]
    chat_threads,     \* st.session_state["chat_threads"]
    uuid_count,       \* number of uuid.uuid4() values drawn so far
    backend,          \* chatbot state: thread id -> persisted messages
    ingested_docs,    \* st.session_state["ingested_docs"] (rag)
    uploaded_pdf,     \* value held by the st.sidebar.file_uploader widget (rag)
    rerun,            \* a st.rerun() is pending (rag)
    ingest_calls,     \* <<thread_key, filename>> of every ingest_pdf call made
    sidebar,          \* what the sidebar's document area showed in the last run (rag)
    pc,               \* "idle", or "streaming" inside st.write_stream
    user_input,       \* the chat input of the running turn
    stream_thread,    \* CONFIG["configurable"]["thread_id"] of the running turn
    events,           \* the chunks chatbot.stream has produced: how many of each
                      \* kind, and the name of the latest ToolMessage
    ai_message,       \* text st.write_stream has accumulated / returned
    status_holder,    \* status_holder = {"box": ...} of the turn
    status_created,   \* number of st.status(...) calls of the turn
    outcome,          \* how the last turn on display ended
    turns,            \* number of turns started in the session
    runs,             \* number of script runs the user has started
    title_messages,   \* argument of get_human_readable_chat_name (TitleSpec)
    chat_name         \* its result (TitleSpec)

vars == << variant, message_history, thread_id, chat_threads, uuid_count, backend,
           ingested_docs, uploaded_pdf, rerun, ingest_calls, sidebar, pc,
           user_input, stream_thread, events, ai_message, status_holder,
           status_created, outcome, turns, runs, title_messages,
           chat_name >>

sessionVars == << variant, message_history, thread_id, chat_threads, uuid_count,
                  backend, ingested_docs, uploaded_pdf, rerun, ingest_calls,
                  sidebar, pc, user_input, stream_thread, events, ai_message,
                  status_holder, status_created, outcome, turns, runs >>

titleVars == << title_messages, chat_name >>

(***************************************************************************)
(* Bounds of the model.                                                    *)
(***************************************************************************)
MaxPersisted == 1   \* threads the backend already knows at session start
MaxTurns     == 2   \* user turns per session
MaxEvents    == 3   \* chunks per turn
MaxIngest    == 3   \* ingest_pdf calls per session
MaxRuns      == 3   \* script runs the user starts per session
MaxMessages  == 2   \* length of a message list given to the title function
MaxTail      == 3   \* characters after the last space of a generated text

Variants == {"basic", "tool", "rag"}

\* Python's None, for the places that hold a record or None.
None == [none |-> TRUE]

Min(a, b) == IF a < b THEN a ELSE b

RECURSIVE Rep(_, _)
Rep(c, n) == IF n <= 0 THEN <<>> ELSE <<c>> \o Rep(c, n - 1)

(***************************************************************************)
(* Text helpers: Python str operations on sequences of characters.         *)
(***************************************************************************)
Whitespace == {" ", "\n", "\t"}

\* s[:n]
Prefix(s, n) == SubSeq(s, 1, Min(n, Len(s)))

\* c in s
Contains(s, c) == \E i \in 1..Len(s) : s[i] = c

\* s.find(c): 0-based index of the first occurrence, -1 when there is none
find(s, c) ==
    IF Contains(s, c)
    THEN (CHOOSE i \in 1..Len(s) : s[i] = c /\ \A j \in 1..(i - 1) : s[j] # c) - 1
    ELSE -1

\* s.rfind(c): 0-based index of the last occurrence, -1 when there is none
rfind(s, c) ==
    IF Contains(s, c)
    THEN (CHOOSE i \in 1..Len(s) :
              s[i] = c /\ \A j \in (i + 1)..Len(s) : s[j] # c) - 1
    ELSE -1

RECURSIVE lstrip(_)
lstrip(s) ==
    IF s # <<>> /\ Head(s) \in Whitespace THEN lstrip(Tail(s)) ELSE s

RECURSIVE rstrip(_)
rstrip(s) ==
    IF s # <<>> /\ s[Len(s)] \in Whitespace
    THEN rstrip(SubSeq(s, 1, Len(s) - 1))
    ELSE s

\* s.strip()
strip(s) == rstrip(lstrip(s))

\* s.replace(old, new) for single characters
replace(s, old, new) == [i \in 1..Len(s) |-> IF s[i] = old THEN new ELSE s[i]]

\* length of the run of non-whitespace characters s starts with
RECURSIVE WordLen(_)
WordLen(s) ==
    IF s = <<>> \/ Head(s) \in Whitespace THEN 0 ELSE 1 + WordLen(Tail(s))

\* s.split(): the maximal runs of non-whitespace characters
RECURSIVE split(_)
split(s) ==
    IF s = <<>> THEN <<>>
    ELSE IF Head(s) \in Whitespace THEN split(Tail(s))
    ELSE <<SubSeq(s, 1, WordLen(s))>> \o split(SubSeq(s, WordLen(s) + 1, Len(s)))

\* sep.join(words)
RECURSIVE join(_, _)
join(sep, words) ==
    IF words = <<>> THEN <<>>
    ELSE IF Len(words) = 1 THEN words[1]
    ELSE words[1] \o sep \o join(sep, Tail(words))

(***************************************************************************)
(* get_human_readable_chat_name                                            *)
(***************************************************************************)
TitleLimit == 30   \* len(first_message) > 30, first_message[:30]
HardCut    == 27   \* first_message[:27]

Ellipsis == <<".", ".", ".">>
NewChatTitle == <<"N", "e", "w", " ", "C", "h", "a", "t">>
ChatConversationTitle ==
    <<"C", "h", "a", "t", " ", "C", "o", "n", "v", "e", "r", "s", "a", "t", "i", "o", "n">>

\* isinstance(msg, HumanMessage)
IsHuman(msg) == msg.type = "human"

\* the truncation of lines 109-117
Truncate(first_message) ==
    IF Len(first_message) > TitleLimit
    THEN IF Contains(Prefix(first_message, TitleLimit), " ")
         THEN LET cut_index == rfind(Prefix(first_message, TitleLimit), " ")
              IN  Prefix(first_message, cut_index) \o Ellipsis
         ELSE Prefix(first_message, HardCut) \o Ellipsis
    ELSE first_message

\* the clean-up of lines 119-122
CleanUp(name) == join(<<" ">>, split(replace(strip(name), "\n", " ")))

\* lines 106-128: the title made from the content of one user message
NameOf(first_message) ==
    LET name == CleanUp(Truncate(first_message))
    IN  IF name = <<>> THEN ChatConversationTitle ELSE name

\* a loop that keeps the last user message it sees
LastHumanIndex(messages) ==
    IF \E i \in 1..Len(messages) : IsHuman(messages[i])
    THEN CHOOSE i \in 1..Len(messages) :
             IsHuman(messages[i]) /\ \A j \in (i + 1)..Len(messages) : ~IsHuman(messages[j])
    ELSE 0

\* the message the loop of lines 104-105 stops at: 0 when it finds none
FirstHumanIndex(messages) ==
    IF \E i \in 1..Len(messages) : IsHuman(messages[i])
    THEN CHOOSE i \in 1..Len(messages) :
             IsHuman(messages[i]) /\ \A j \in 1..(i - 1) : ~IsHuman(messages[j])
    ELSE 0

get_human_readable_chat_name(tid, messages) ==
    IF messages = <<>> THEN NewChatTitle
    ELSE IF FirstHumanIndex(messages) # 0
         THEN NameOf(messages[FirstHumanIndex(messages)].content)
         ELSE ChatConversationTitle

(***************************************************************************)
(* Session state helpers.                                                  *)
(***************************************************************************)
\* the label the variant's script saves assistant entries under
AssistantRole == IF variant = "basic" THEN "ai" ELSE "assistant"

\* thread ids: 1..MaxPersisted are threads of earlier sessions, the rest are
\* the uuid.uuid4() values of this session, never drawn before
ThreadIds == 1..(MaxPersisted + MaxRuns + 1)

\* generate_thread_id(): a value no thread has had
generate_thread_id == MaxPersisted + uuid_count + 1

\* str(thread_id)
str(tid) == [str |-> tid]

InList(x, list) == \E i \in 1..Len(list) : list[i] = x

\* an add_thread without the membership test
add_thread_always(threads, tid) == Append(threads, tid)

\* add_thread(thread_id), on the list it is given
add_thread(threads, tid) ==
    IF ~InList(tid, threads) THEN Append(threads, tid) ELSE threads

\* dict.get(key, default); a dict here is a function on its keys
get(dict, key, default) == IF key \in DOMAIN dict THEN dict[key] ELSE default

\* chatbot.get_state(config): a thread the backend has no state for has no
\* "messages" key in state.values
get_state(tid) ==
    [values |-> IF backend[tid] = <<>>
                THEN [key \in {} |-> <<>>]
                ELSE [key \in {"messages"} |-> backend[tid]]]

\* load_conversation(thread_id): state.values.get("messages", [])
load_conversation(tid) == get(get_state(tid).values, "messages", <<>>)

\* a mapping that labels every entry with the assistant's role
ToTranscriptAllAssistant(messages) ==
    [i \in 1..Len(messages) |->
        [role |-> AssistantRole, content |-> messages[i].content]]

\* lines 119-122 (tool, rag) / 168-174 (basic): backend messages as transcript entries
ToTranscript(messages) ==
    [i \in 1..Len(messages) |->
        [role    |-> IF IsHuman(messages[i]) THEN "user" ELSE AssistantRole,
         content |-> messages[i].content]]

\* ingested_docs.setdefault(key, {})
setdefault(docs, key) ==
    IF key \in DOMAIN docs THEN docs ELSE docs @@ (key :> <<>>)

\* name in thread_docs; a dict is a sequence of [key, value] in insertion order
InDocs(name, thread_docs) == \E i \in 1..Len(thread_docs) : thread_docs[i].key = name

\* thread_docs[name] = summary
SetDoc(thread_docs, name, summary) ==
    IF InDocs(name, thread_docs)
    THEN [i \in 1..Len(thread_docs) |->
             IF thread_docs[i].key = name
             THEN [key |-> name, value |-> summary] ELSE thread_docs[i]]
    ELSE Append(thread_docs, [key |-> name, value |-> summary])

\* lines 170-177: list(thread_docs.values())[-1], or None
LatestDoc(thread_docs) ==
    IF thread_docs # <<>> THEN thread_docs[Len(thread_docs)].value ELSE None

Filenames == {"a.pdf", "b.pdf"}
NoFile == "None"

\* what ingest_pdf returns for a file: {filename, chunks, documents}
Summaries(name) ==
    {[filename |-> name, chunks |-> Len(name), documents |-> 1]}

(***************************************************************************)
(* The backend collaborators, as far as the scripts depend on them.        *)
(***************************************************************************)
Human(text) == [type |-> "human", content |-> text]
AI(text)    == [type |-> "ai", content |-> text]
Tool(text)  == [type |-> "tool", content |-> text]

\* what the backend holds for the threads of earlier sessions
PersistedHistory(tid) ==
    IF tid = 1
    THEN << Human(<<"2", "+", "2">>), Tool(<<"4">>), AI(<<"4", "!">>) >>
    ELSE << Human(<<"h", "i">>), AI(<<"y", "o">>) >>

\* the lists retrieve_all_threads() may return: the known ids, each once
PersistedLists == {[i \in 1..n |-> i] : n \in 0..MaxPersisted}

\* retrieve_all_threads() (tool, rag); the basic script starts from []
retrieve_all_threads(known) == IF variant = "basic" THEN <<>> ELSE known

\* the chunks chatbot.stream may yield: (message_chunk, metadata) by kind
\* the reply the model streams, in the fragments it arrives in
Reply == << <<"H", "e", "l">>, <<"l", "o", " ">>, <<"w", "o", "r", "l", "d">> >>
AIChunks == {[type |-> "ai", name |-> "", content |-> Reply[i]] : i \in 1..Len(Reply)}
ToolChunks == {[type |-> "tool", name |-> n, content |-> <<"4">>] :
                n \in {"search", "calc"}}
OtherChunks == {[type |-> "other", name |-> "", content |-> <<"s", "y", "s">>]}
\* the basic backend runs no tools
Chunks == AIChunks \cup OtherChunks \cup (IF variant = "basic" THEN {} ELSE ToolChunks)

\* what the user types into st.chat_input, turn after turn
Typed == << <<"h", "i">>, <<"2", "+", "2">> >>
UserInputs == {Typed[(turns % Len(Typed)) + 1]}

\* no chunk produced yet
NoEvents == [ai |-> 0, tool |-> 0, other |-> 0, last_tool |-> ""]

\* the number of chunks produced
Produced(ev) == ev.ai + ev.tool + ev.other

\* the chunks chatbot.stream may yield next: the reply arrives fragment by
\* fragment, tool and other chunks at any point
NextChunks(ev) ==
    {c \in Chunks : c.type = "ai" =>
        /\ ev.ai < Len(Reply)
        /\ c.content = Reply[ev.ai + 1]}

\* the text of the first k fragments of the reply, in emission order
RECURSIVE ReplyText(_)
ReplyText(k) == IF k = 0 THEN <<>> ELSE ReplyText(k - 1) \o Reply[k]

\* what the backend has persisted for a completed turn
TurnMessages(input, ev) ==
    <<Human(input)>> \o [i \in 1..ev.tool |-> Tool(<<"4">>)] \o <<AI(ReplyText(ev.ai))>>

(***************************************************************************)
(* The streaming pipeline of one turn.                                     *)
(***************************************************************************)
NoBox == [box |-> None]

\* what the generator handed to st.write_stream yields for one chunk:
\* basic (lines 195-201) yields every chunk's content; tool (172-173) and
\* rag (251-252) yield the content of AIMessage chunks only
Yielded(chunk) ==
    IF variant = "basic" \/ chunk.type = "ai" THEN chunk.content ELSE <<>>

\* st.write_stream: the text written so far, extended by what is yielded
write_stream(written, chunk) == written \o Yielded(chunk)

\* tool lines 158-169, rag lines 238-249; the basic script has no status code
IsToolMessage(chunk) == variant # "basic" /\ chunk.type = "tool"

\* the indicator st.status(...) returns: the n-th created in the turn
NewStatus(n, tool_name) ==
    [id |-> n, label |-> tool_name, state |-> "running", expanded |-> TRUE]

\* a pipeline that calls st.status for every ToolMessage
StatusAlwaysNew(holder, chunk, created) ==
    IF ~IsToolMessage(chunk) THEN [holder |-> holder, created |-> created]
    ELSE [holder |-> [box |-> NewStatus(created + 1, chunk.name)],
          created |-> created + 1]

\* the holder and the number of st.status calls after a chunk: the first
\* ToolMessage creates the indicator, a later one updates the same one
StatusOnChunk(holder, chunk, created) ==
    IF ~IsToolMessage(chunk) THEN [holder |-> holder, created |-> created]
    ELSE IF holder.box = None
    THEN [holder |-> [box |-> NewStatus(created + 1, chunk.name)],
          created |-> created + 1]
    ELSE [holder |-> [box |-> [holder.box EXCEPT !.label = chunk.name,
                                                 !.state = "running",
                                                 !.expanded = TRUE]],
          created |-> created]

\* a pipeline that never finalises the indicator
FinalizeNever(holder) == holder

\* tool lines 178-181, rag lines 256-259
Finalize(holder) ==
    IF holder.box # None
    THEN [box |-> [holder.box EXCEPT !.label = "Tool finished",
                                     !.state = "complete", !.expanded = FALSE]]
    ELSE holder

\* a save that puts the assistant entry in front of the turn's user entry
SaveAssistantBeforeUser(history, text) ==
    SubSeq(history, 1, Len(history) - 1)
        \o << [role |-> AssistantRole, content |-> text], history[Len(history)] >>

\* tool lines 184-186, rag 261-263, basic 202
SaveAssistant(history, text) ==
    Append(history, [role |-> AssistantRole, content |-> text])

\* tool line 136, rag 219, basic 189
SaveUser(history, text) == Append(history, [role |-> "user", content |-> text])

(***************************************************************************)
(* The PDF upload handler (rag lines 179-191).                             *)
(***************************************************************************)
Raised == [raised |-> TRUE]

\* a handler without the membership test
AlreadyProcessedNever(name, thread_docs) == FALSE

\* uploaded_pdf.name in thread_docs
AlreadyProcessed(name, thread_docs) == InDocs(name, thread_docs)

\* ingest_pdf is called by the run that starts now
NeedsIngest(key, name) ==
    /\ variant = "rag"
    /\ name # NoFile
    /\ ~AlreadyProcessed(name, setdefault(ingested_docs, key)[key])

\* what ingest_pdf may do in the run that starts now: return a summary or raise
IngestResults(key, name) ==
    IF NeedsIngest(key, name) THEN Summaries(name) \cup {Raised} ELSE {None}

\* rag lines 157-158 and 170-191 of one run for thread key and uploader value
\* name: the document map, the calls made, what the sidebar shows, and whether
\* the run was aborted by ingest_pdf raising
RunTop(key, name, result) ==
    LET docs == setdefault(ingested_docs, key)
        shown == LatestDoc(docs[key])
    IN  IF variant # "rag"
        THEN [docs |-> ingested_docs, calls |-> ingest_calls,
              sidebar |-> sidebar, aborted |-> FALSE]
        ELSE IF name = NoFile
        THEN [docs |-> docs, calls |-> ingest_calls,
              sidebar |-> [doc |-> shown, upload |-> "none"], aborted |-> FALSE]
        ELSE IF AlreadyProcessed(name, docs[key])
        THEN [docs |-> docs, calls |-> ingest_calls,
              sidebar |-> [doc |-> shown, upload |-> "already processed"],
              aborted |-> FALSE]
        ELSE IF result = Raised
        THEN [docs |-> docs,
              calls |-> ingest_calls (+) SetToBag({<<key, name>>}),
              sidebar |-> [doc |-> shown, upload |-> "failed"], aborted |-> TRUE]
        ELSE [docs |-> [docs EXCEPT ![key] = SetDoc(@, name, result)],
              calls |-> ingest_calls (+) SetToBag({<<key, name>>}),
              sidebar |-> [doc |-> shown, upload |-> "indexed"], aborted |-> FALSE]

\* the cap on ingest_pdf calls per session
IngestAllowed(key, name) ==
    NeedsIngest(key, name) => BagCardinality(ingest_calls) < MaxIngest

\* the locals of a turn are gone when a later run starts
NoTurn ==
    /\ user_input' = <<>>
    /\ stream_thread' = <<>>
    /\ events' = NoEvents
    /\ ai_message' = <<>>
    /\ status_holder' = NoBox
    /\ status_created' = 0
    /\ outcome' = "none"

(***************************************************************************)
(* Session start: the first run of the script (session initialisation).    *)
(***************************************************************************)
EmptyDocs == [key \in {} |-> <<>>]

SessionInit ==
    /\ variant \in Variants
    /\ uuid_count = 1
    /\ thread_id = MaxPersisted + 1
    /\ \E known \in PersistedLists :
          /\ chat_threads = add_thread(retrieve_all_threads(known), thread_id)
          /\ backend = [tid \in ThreadIds |->
                           IF InList(tid, retrieve_all_threads(known))
                           THEN PersistedHistory(tid) ELSE <<>>]
    /\ message_history = <<>>
    /\ ingested_docs = IF variant = "rag"
                       THEN setdefault(EmptyDocs, str(thread_id)) ELSE EmptyDocs
    /\ uploaded_pdf = NoFile
    /\ rerun = FALSE
    /\ ingest_calls = EmptyBag
    /\ sidebar = [doc |-> None, upload |-> "none"]
    /\ pc = "idle"
    /\ user_input = <<>>
    /\ stream_thread = <<>>
    /\ events = NoEvents
    /\ ai_message = <<>>
    /\ status_holder = NoBox
    /\ status_created = 0
    /\ outcome = "none"
    /\ turns = 0
    /\ runs = 0

\* no thread has been named yet
Init ==
    /\ SessionInit
    /\ title_messages = <<>>
    /\ chat_name = <<>>

(***************************************************************************)
(* Script runs started by the user.                                        *)
(***************************************************************************)
\* a run whose only effects are those of the top of the script: nothing was
\* clicked, or ingest_pdf raised and cut the run short
TopOnlyRun(top, by_user) ==
    /\ chat_threads' = add_thread(chat_threads, thread_id)
    /\ ingested_docs' = top.docs
    /\ ingest_calls' = top.calls
    /\ sidebar' = top.sidebar
    /\ rerun' = FALSE
    /\ runs' = IF by_user THEN runs + 1 ELSE runs
    /\ NoTurn
    /\ UNCHANGED << variant, message_history, thread_id, uuid_count, backend, pc,
                    turns, titleVars >>

\* a reset_chat that does not register the new thread
reset_chat_unregistered ==
    /\ thread_id' = generate_thread_id
    /\ uuid_count' = uuid_count + 1
    /\ chat_threads' = add_thread(chat_threads, thread_id)
    /\ message_history' = <<>>

\* reset_chat(), on the list add_thread(thread_id) of this run left
reset_chat ==
    /\ thread_id' = generate_thread_id
    /\ uuid_count' = uuid_count + 1
    /\ chat_threads' = add_thread(add_thread(chat_threads, thread_id),
                                  generate_thread_id)
    /\ message_history' = <<>>

\* "New Chat": basic 151-152, tool 103-104, rag 166-168 (then st.rerun())
NewChat ==
    /\ pc = "idle" /\ ~rerun
    /\ runs < MaxRuns /\ runs' = runs + 1
    /\ reset_chat
    /\ IF variant = "rag"
       THEN /\ ingested_docs' = setdefault(ingested_docs, str(thread_id))
            /\ rerun' = TRUE
       ELSE UNCHANGED << ingested_docs, rerun >>
    /\ NoTurn
    /\ UNCHANGED << variant, backend, uploaded_pdf, ingest_calls, sidebar, pc,
                    turns, titleVars >>

\* a sidebar thread button: basic 156-176, tool 107-123, rag 197-206 and 274-284
SelectThread(tid) ==
    /\ pc = "idle" /\ ~rerun
    /\ runs < MaxRuns
    /\ InList(tid, add_thread(chat_threads, thread_id))
    /\ IngestAllowed(str(thread_id), uploaded_pdf)
    /\ \E result \in IngestResults(str(thread_id), uploaded_pdf) :
          LET top == RunTop(str(thread_id), uploaded_pdf, result)
          IN  IF top.aborted
              THEN TopOnlyRun(top, TRUE) /\ UNCHANGED uploaded_pdf
              ELSE /\ runs' = runs + 1
                   /\ thread_id' = tid
                   /\ message_history' = ToTranscript(load_conversation(tid))
                   /\ chat_threads' = add_thread(chat_threads, thread_id)
                   /\ ingested_docs' = IF variant = "rag"
                                       THEN setdefault(top.docs, str(tid))
                                       ELSE top.docs
                   /\ ingest_calls' = top.calls
                   /\ sidebar' = top.sidebar
                   /\ rerun' = (variant = "rag")
                   /\ NoTurn
                   /\ UNCHANGED << variant, uuid_count, backend, uploaded_pdf, pc,
                                   turns, titleVars >>

\* a run with nothing clicked (rag): the rest of the script only renders
PlainRun(name, by_user) ==
    /\ IngestAllowed(str(thread_id), name)
    /\ \E result \in IngestResults(str(thread_id), name) :
          LET top == RunTop(str(thread_id), name, result)
          IN  TopOnlyRun(top, by_user)

\* the run st.rerun() asked for
Rerun ==
    /\ pc = "idle" /\ rerun
    /\ PlainRun(uploaded_pdf, FALSE)
    /\ UNCHANGED uploaded_pdf

\* the user puts a file into (or takes it out of) the uploader: rag 179-191
UploadPdf(name) ==
    /\ variant = "rag"
    /\ pc = "idle" /\ ~rerun
    /\ name # uploaded_pdf
    /\ runs < MaxRuns
    /\ uploaded_pdf' = name
    /\ PlainRun(name, TRUE)

(***************************************************************************)
(* A user turn: basic 188-202, tool 134-186, rag 218-263.                  *)
(***************************************************************************)
\* a CONFIG that names the first thread of the sidebar list
ConfigThreadFirst ==
    IF variant = "rag" THEN str(chat_threads[1]) ELSE chat_threads[1]

\* the thread id put into CONFIG: session_state["thread_id"] (basic 186,
\* tool 141), thread_key (rag 224)
ConfigThread == IF variant = "rag" THEN str(thread_id) ELSE thread_id

\* the backend thread a CONFIG thread id names
BackendThread(config) == IF variant = "rag" THEN config.str ELSE config

\* the chat input is submitted: the run reaches st.write_stream
TurnStart(input) ==
    /\ pc = "idle" /\ ~rerun
    /\ runs < MaxRuns
    /\ turns < MaxTurns
    /\ IngestAllowed(str(thread_id), uploaded_pdf)
    /\ \E result \in IngestResults(str(thread_id), uploaded_pdf) :
          LET top == RunTop(str(thread_id), uploaded_pdf, result)
          IN  IF top.aborted
              THEN TopOnlyRun(top, TRUE) /\ UNCHANGED uploaded_pdf
              ELSE /\ runs' = runs + 1
                   /\ message_history' = SaveUser(message_history, input)
                   /\ chat_threads' = add_thread(chat_threads, thread_id)
                   /\ ingested_docs' = top.docs
                   /\ ingest_calls' = top.calls
                   /\ sidebar' = top.sidebar
                   /\ pc' = "streaming"
                   /\ user_input' = input
                   /\ stream_thread' = <<ConfigThread>>
                   /\ events' = NoEvents
                   /\ ai_message' = <<>>
                   /\ status_holder' = NoBox
                   /\ status_created' = 0
                                  /\ outcome' = "streaming"
                   /\ turns' = turns + 1
                   /\ UNCHANGED << variant, thread_id, uuid_count, backend,
                                   uploaded_pdf, rerun, titleVars >>

\* chatbot.stream yields one more chunk and the generator handles it
StreamChunk(chunk) ==
    /\ pc = "streaming"
    /\ Produced(events) < MaxEvents
    /\ chunk \in NextChunks(events)
    /\ events' = [events EXCEPT ![chunk.type] = @ + 1,
                                !.last_tool = IF chunk.type = "tool" THEN chunk.name ELSE @]
    /\ status_holder' = StatusOnChunk(status_holder, chunk, status_created).holder
    /\ status_created' = StatusOnChunk(status_holder, chunk, status_created).created
    /\ ai_message' = write_stream(ai_message, chunk)
    /\ UNCHANGED << variant, message_history, thread_id, chat_threads, uuid_count,
                    backend, ingested_docs, uploaded_pdf, rerun, ingest_calls,
                    sidebar, pc, user_input, stream_thread, outcome, turns, runs,
                    titleVars >>

\* a script that saves what was streamed before the failure
OnFailureSavePartial(history, text) == SaveAssistant(history, text)

\* the history a failed turn leaves: the exception skips the save
OnFailure(history, text) == history

\* chatbot.stream raises: the exception leaves the script, the run ends there
\* and its locals (ai_message was never assigned, status_holder) are gone;
\* the backend may or may not have persisted the user's message
StreamFail ==
    /\ pc = "streaming"
    /\ pc' = "idle"
    /\ outcome' = "failed"
    /\ ai_message' = <<>>
    /\ status_holder' = NoBox
    /\ status_created' = 0
    /\ message_history' = OnFailure(message_history, ai_message)
    /\ \E saved \in BOOLEAN :
          backend' = IF saved
                     THEN [backend EXCEPT ![BackendThread(stream_thread[1])] =
                              Append(@, Human(user_input))]
                     ELSE backend
    /\ UNCHANGED << variant, thread_id, chat_threads, uuid_count, ingested_docs,
                    uploaded_pdf, rerun, ingest_calls, sidebar, user_input,
                    stream_thread, events, turns, runs, titleVars >>

\* chatbot.stream is exhausted: st.write_stream returns, the status indicator
\* is finalised and the assistant entry is saved
StreamEnd ==
    /\ pc = "streaming"
    /\ pc' = "idle"
    /\ outcome' = "completed"
    /\ status_holder' = Finalize(status_holder)
    /\ message_history' = SaveAssistant(message_history, ai_message)
    /\ backend' = [backend EXCEPT ![BackendThread(stream_thread[1])] =
                      @ \o TurnMessages(user_input, events)]
    /\ UNCHANGED << variant, thread_id, chat_threads, uuid_count, ingested_docs,
                    uploaded_pdf, rerun, ingest_calls, sidebar, user_input,
                    stream_thread, events, ai_message, status_created, turns,
                    runs, titleVars >>

Next ==
    \/ NewChat
    \/ \E tid \in ThreadIds : SelectThread(tid)
    \/ Rerun
    \/ \E name \in Filenames \cup {NoFile} : UploadPdf(name)
    \/ \E input \in UserInputs : TurnStart(input)
    \/ \E chunk \in AIChunks \cup ToolChunks \cup OtherChunks : StreamChunk(chunk)
    \/ StreamFail
    \/ StreamEnd

Spec == Init /\ [][Next]_vars

(***************************************************************************)
(* The sidebar's title of one thread: basic 156-161, tool 107-112,         *)
(* rag 197-202.                                                            *)
(***************************************************************************)
\* the first message of the docstring's second example
Example ==
    << "C", "a", "n", " ", "y", "o", "u", " ", "e", "x", "p", "l", "a", "i", "n",
      " ", "m", "a", "c", "h", "i", "n", "e", " ", "l", "e", "a", "r", "n",
      "i", "n", "g", " ", "c", "o", "n", "c", "e", "p", "t", "s", " ", "i",
      "n", " ", "s", "i", "m", "p", "l", "e", " ", "t", "e", "r", "m", "s",
      " ", "f", "o", "r", " ", "a", " ", "b", "e", "g", "i", "n", "n", "e",
      "r", "?" >>

\* user messages the title is made from: short ones, blank ones, and long
\* ones with the last space at each place around the limit
TitleTexts ==
    { <<>>, <<" ">>, <<"\n", " ">>, <<"h", "i">>,
      <<" ", "a", " ", " ", "b", "\n", "c", "\t">>, Example }
    \cup {Rep("a", i) \o <<" ">> \o Rep("b", j) :
             i \in (TitleLimit - MaxTail)..TitleLimit, j \in 0..MaxTail}
    \cup {Rep("a", n) : n \in (TitleLimit - 1)..(TitleLimit + MaxTail)}

TitleMessages ==
    {Human(t) : t \in TitleTexts} \cup {AI(<<"y", "o">>), Tool(<<"4">>)}

\* the message lists load_conversation may return
TitleInputs == UNION {[1..n -> TitleMessages] : n \in 0..MaxMessages}

\* one round of the sidebar loop: the thread's messages are loaded and the
\* thread is named
SidebarTitle ==
    /\ chat_name = <<>>
    /\ chat_name' = get_human_readable_chat_name(thread_id, title_messages)
    /\ UNCHANGED << sessionVars, title_messages >>

TitleInit ==
    /\ SessionInit
    /\ variant = "basic"
    /\ title_messages \in TitleInputs
    /\ chat_name = <<>>

TitleNext == SidebarTitle

TitleSpec == TitleInit /\ [][TitleNext]_vars

(***************************************************************************)
(* Properties.                                                             *)
(***************************************************************************)
Last(seq) == seq[Len(seq)]

\* message_history' is message_history with one assistant entry appended
AssistantAppended ==
    /\ Len(message_history') = Len(message_history) + 1
    /\ SubSeq(message_history', 1, Len(message_history)) = message_history
    /\ Last(message_history').role = AssistantRole

\* C1: all-or-nothing commit.  While a turn streams, an assistant entry is
\* appended to message_history in exactly the step in which the event
\* sequence completes; a chunk appends nothing, and a failure, after however
\* many fragments, leaves message_history as it was, without the partial text.
AllOrNothingCommit ==
    [][pc = "streaming" =>
          /\ (AssistantAppended <=> outcome' = "completed")
          /\ (outcome' # "completed" => message_history' = message_history)]_vars

\* C1 witness: a turn failed after assistant text had been emitted, and the
\* transcript ends with the turn's user entry.
FailedAfterPartialText ==
    /\ outcome = "failed"
    /\ events.ai >= 2
    /\ Last(message_history) = [role |-> "user", content |-> user_input]

\* C2: streaming accumulation.  In every variant, the assistant entry saved by
\* a completed turn holds the concatenation, in emission order, of the
\* assistant-text fragments of the turn and nothing else.
StreamingAccumulation ==
    outcome = "completed" =>
        Last(message_history) =
            [role |-> AssistantRole, content |-> ReplyText(events.ai)]

\* C3: at most one status indicator per turn.  st.status is called at most
\* once in a turn; from the first ToolMessage on, the holder has that one
\* indicator, labelled with the latest tool name and running.
AtMostOneStatus ==
    /\ status_created <= 1
    /\ ((pc = "streaming" /\ variant # "basic" /\ events.tool > 0) =>
          /\ status_created = 1
          /\ status_holder.box # None
          /\ status_holder.box.id = 1
          /\ status_holder.box.label = events.last_tool
          /\ status_holder.box.state = "running")

\* C3 witness: two tools have run in the turn, the second under another name.
TwoToolsOneStatus ==
    /\ pc = "streaming"
    /\ events.tool = 2
    /\ status_created = 1
    /\ status_holder.box # None
    /\ status_holder.box.label = "calc"

\* C4: status indicator finalisation.  After a completed turn of the tool and
\* PDF variants an indicator exists exactly if a tool event occurred, and it is
\* then complete and collapsed; without a tool event none is ever created.
StatusFinalised ==
    /\ ((outcome = "completed" /\ variant # "basic") =>
          /\ (status_holder.box # None <=> events.tool > 0)
          /\ (status_holder.box # None =>
                /\ status_holder.box.state = "complete"
                /\ status_holder.box.expanded = FALSE))
    /\ (events.tool = 0 => (status_holder.box = None /\ status_created = 0))

\* C4 witness: a turn with tool events has completed.
CompletedWithTool ==
    /\ outcome = "completed"
    /\ events.tool > 0
    /\ status_holder.box # None

\* C5: registry membership.  The active thread id is a member of
\* chat_threads after session initialisation and after every run.
ActiveThreadKnown == InList(thread_id, chat_threads)

\* C5 witness: after a "New Chat", a thread of the backend's list was selected.
SelectedPersistedThread ==
    /\ thread_id <= MaxPersisted
    /\ uuid_count > 1
    /\ InList(thread_id, chat_threads)

\* the number of ingest_pdf calls made for a thread and a file
Calls(key, name) == CopiesIn(<<key, name>>, ingest_calls)

ThreadKeys == {str(tid) : tid \in ThreadIds}

Stored(key, name) ==
    key \in DOMAIN ingested_docs /\ InDocs(name, ingested_docs[key])

\* the step is a run that reaches the upload handler with a file that is
\* stored for the active thread
HandlesStoredUpload ==
    /\ variant = "rag" /\ pc = "idle"
    /\ uuid_count' = uuid_count
    /\ uploaded_pdf' # NoFile
    /\ Stored(str(thread_id), uploaded_pdf')

AddThreadIdempotent ==
    \A tid \in ThreadIds :
        /\ add_thread(add_thread(chat_threads, tid), tid) = add_thread(chat_threads, tid)
        /\ (InList(tid, chat_threads) => add_thread(chat_threads, tid) = chat_threads)
        /\ (~InList(tid, chat_threads) =>
              add_thread(chat_threads, tid) = Append(chat_threads, tid))

\* C7 witness: the list holds several threads and runs have re-registered
\* the active one.
ReRegistered ==
    /\ Len(chat_threads) >= 3
    /\ runs >= 2
    /\ InList(thread_id, chat_threads)

\* the user messages of a list, in order
RECURSIVE HumanContents(_)
HumanContents(messages) ==
    IF messages = <<>> THEN <<>>
    ELSE (IF Head(messages).type = "human" THEN <<Head(messages).content>> ELSE <<>>)
         \o HumanContents(Tail(messages))

\* C8: title fallbacks.  The title of an empty list is "New Chat", of a list
\* without a user message "Chat Conversation", and otherwise the title made
\* from the first user message alone.
TitleFallbacks ==
    chat_name # <<>> =>
        /\ (title_messages = <<>> => chat_name = NewChatTitle)
        /\ ((title_messages # <<>> /\ HumanContents(title_messages) = <<>>)
              => chat_name = ChatConversationTitle)
        /\ (HumanContents(title_messages) # <<>>
              => chat_name = NameOf(HumanContents(title_messages)[1]))

\* C8 witness: a list with two user messages of different titles was named.
NamedFromFirstOfTwo ==
    /\ chat_name # <<>>
    /\ Len(HumanContents(title_messages)) = 2
    /\ NameOf(HumanContents(title_messages)[1]) # NameOf(HumanContents(title_messages)[2])

\* C9: title length bound.  Every title is at most 30 characters long.
TitleAtMost30 == Len(chat_name) <= TitleLimit

ExampleTitleClaimed ==
    << "C", "a", "n", " ", "y", "o", "u", " ", "e", "x", "p", "l", "a", "i",
       "n", " ", "m", "a", "c", "h", "i", "n", "e", " ", "l", "e", "a", "r",
       "n", "i", "n", "g", ".", ".", "." >>

ExampleTitleComputed ==
    << "C", "a", "n", " ", "y", "o", "u", " ", "e", "x", "p", "l", "a", "i",
       "n", " ", "m", "a", "c", "h", "i", "n", "e", ".", ".", "." >>

UserEntry == [role |-> "user", content |-> user_input]

\* the step starts a turn / is a chunk of the turn / ends the turn
TurnStarts == pc = "idle" /\ pc' = "streaming"
TurnStreams == pc = "streaming" /\ pc' = "streaming"
TurnEnds == pc = "streaming" /\ pc' = "idle"

\* the start of a turn appends the user entry holding the submitted input,
\* and no chunk of the turn, a ToolMessage included, touches the transcript
UserEntryThenStreaming ==
    /\ (TurnStarts => message_history' = Append(message_history, UserEntry'))
    /\ (TurnStreams => message_history' = message_history)

\* the end of the turn puts the assistant entry right after the user entry
AssistantEntryFollows ==
    /\ Last(message_history) = UserEntry
    /\ message_history' = Append(message_history,
                                 [role |-> AssistantRole, content |-> ai_message])

\* C11 as stated: turn appends user then assistant.  Once a turn starts, the
\* transcript receives the user entry and then, adjacent to it, an assistant
\* entry: no turn ends with the transcript ending in the user entry; chunks
\* (tool-status events included) add no entry.
TurnAppendsUserThenAssistant ==
    [][/\ UserEntryThenStreaming
       /\ (TurnEnds => AssistantEntryFollows)]_vars

\* C11 as amended: the start of a turn appends the user entry, chunks add no
\* entry, a turn whose event sequence completes appends the assistant entry
\* right after the user entry, and a turn whose event sequence fails leaves
\* the transcript ending in the user entry with no assistant entry after it.
TurnAppendsUserThenAssistantIfCompleted ==
    [][/\ UserEntryThenStreaming
       /\ (TurnEnds /\ outcome' = "completed" => AssistantEntryFollows)
       /\ (TurnEnds /\ outcome' # "completed" =>
              /\ message_history' = message_history
              /\ Last(message_history') = UserEntry)]_vars

\* C11 witness: a turn with a tool-status event completed, and the transcript
\* ends with the turn's user entry followed by its assistant entry.
UserThenAssistantAfterTool ==
    /\ outcome = "completed"
    /\ events.tool >= 1
    /\ Len(message_history) >= 2
    /\ message_history[Len(message_history) - 1] = UserEntry
    /\ Last(message_history) = [role |-> AssistantRole, content |-> ai_message]

\* the run of the step was cut short by ingest_pdf raising in the upload
\* handler at the top of the script
RunAborted == sidebar'.upload = "failed"

\* the transcript of the step's end is the backend history of tid, one entry
\* per message in backend order, "user" for the user-authored messages and
\* the variant's assistant label for the others, the content unchanged
ReloadedFrom(tid) ==
    /\ Len(message_history') = Len(backend[tid])
    /\ \A i \in 1..Len(backend[tid]) :
          /\ message_history'[i].role =
                 IF backend[tid][i].type = "human" THEN "user"
                 ELSE IF variant = "basic" THEN "ai" ELSE "assistant"
          /\ message_history'[i].content = backend[tid][i].content
    /\ (backend[tid] = <<>> => message_history' = <<>>)

TurnOnActiveThread ==
    /\ thread_id' = thread_id
    /\ stream_thread' = << IF variant = "rag" THEN str(thread_id) ELSE thread_id >>
    /\ BackendThread(stream_thread'[1]) = thread_id
    /\ \A tid \in ThreadIds \ {thread_id} : backend'[tid] = backend[tid]
    /\ Len(message_history') >= Len(message_history)
    /\ SubSeq(message_history', 1, Len(message_history)) = message_history

\* the step leaves on display the transcript of the thread that is active
\* after it: empty for the fresh thread of a "New Chat", reloaded from the
\* backend when a thread was selected, untouched otherwise
TranscriptFollowsThread ==
    /\ (uuid_count' # uuid_count =>
           /\ thread_id' # thread_id
           /\ backend[thread_id'] = <<>>
           /\ message_history' = <<>>)
    /\ (thread_id' # thread_id /\ uuid_count' = uuid_count =>
           ReloadedFrom(thread_id'))
    /\ (thread_id' = thread_id =>
           message_history' = message_history \/ ReloadedFrom(thread_id))

====
